---- MODULE Spec2Model ----
(***************************************************************************)
(* Token-and-credential lifecycle of the ai-todo-app backend.               *)
(*                                                                          *)
(* The model follows the use cases under application/use-cases/auth, the    *)
(* MongoUserRepository they call, the Mongoose document methods of the      *)
(* user schema and the JWT TokenService.  Every request runs in a slot      *)
(* p \in Procs; a slot advances one await (one store read or write) at a    *)
(* time, so that requests interleave exactly where the code suspends.       *)
(*                                                                          *)
(* A JWT is modelled by what jwt.sign puts into it: the payload, the        *)
(* issue second iat, the expiry exp = iat + lifetime and the secret that    *)
(* signed it.  Two tokens with the same payload signed in the same second   *)
(* are therefore the same string, as they are with jsonwebtoken.            *)
(*                                                                          *)
(* Document.save() is modelled by the update Mongoose sends: a push on an   *)
(* array is an atomic $push, an assignment of a whole array is a $set       *)
(* guarded by the version key (VersionError when another save has changed   *)
(* the array since the document was read), and an assignment that leaves    *)
(* the array equal to what was read sends nothing.  The version key is      *)
(* kept as the flag "stale" of the slot that holds the document.            *)
(***************************************************************************)
EXTENDS Integers, Sequences, FiniteSets, TLC

VARIABLES store, now, pc, loc, known, consumed, active, clearedSince, ops,
          tainted, mail, rand

vars == <<store, now, pc, loc, known, consumed, active, clearedSince, ops,
          tainted, mail, rand>>

----------------------------------------------------------------------------
(* Bounds of the model *)

(* the model follows at most MaxOps requests and clock seconds *)
MaxOps == 4

Procs == {"p1", "p2"}
Users == {"u1", "u2"}
Passwords == {"pw1", "pw2"}
LoginEmails == {"a@x.com", "b@x.com", "nobody@x.com"}

----------------------------------------------------------------------------
(* Configuration (infrastructure/config): secrets and lifetimes.  The       *)
(* lifetimes come from the environment; the model runs with lifetimes of a  *)
(* few seconds so that expiry is reached.                                   *)

JwtAccessSecret == "access-secret"
JwtRefreshSecret == "refresh-secret"
JwtAccessExpiresIn == [n |-> 1, unit |-> "s"]
JwtRefreshExpiresIn == [n |-> 2, unit |-> "s"]

(* jsonwebtoken turns the expiresIn string into seconds (the ms package) *)
UnitSeconds(unit) ==
  CASE unit = "s" -> 1
    [] unit = "m" -> 60
    [] unit = "h" -> 3600
    [] unit = "d" -> 86400

LifetimeSeconds(cfg) == cfg.n * UnitSeconds(cfg.unit)

----------------------------------------------------------------------------
(* Token codec: infrastructure/services/TokenService *)

NoToken == [userId |-> "", email |-> "", type |-> "none", iat |-> 0, exp |-> 0, sig |-> "none"]
GarbageToken == [userId |-> "", email |-> "", type |-> "none", iat |-> 0, exp |-> 0, sig |-> "garbage"]

(* a signer that writes the two claims into each other's place *)
JwtSign_swapped(userId, email, type, secret, cfg, t) ==
  [userId |-> email, email |-> userId, type |-> type,
   iat |-> t, exp |-> t + LifetimeSeconds(cfg), sig |-> secret]

JwtSign(userId, email, type, secret, cfg, t) ==
  [userId |-> userId, email |-> email, type |-> type,
   iat |-> t, exp |-> t + LifetimeSeconds(cfg), sig |-> secret]

(* a verification that ignores the expiry (ignoreExpiration: true) *)
JwtVerify_noexp(token, secret, t) ==
  IF token.sig # secret THEN "JsonWebTokenError" ELSE "ok"

(* jwt.verify: signature first, then expiry (expired when now >= exp) *)
JwtVerify(token, secret, t) ==
  IF token.sig # secret THEN "JsonWebTokenError"
  ELSE IF t >= token.exp THEN "TokenExpiredError"
  ELSE "ok"

generateAccessToken(userId, email, t) ==
  JwtSign(userId, email, "access", JwtAccessSecret, JwtAccessExpiresIn, t)

(* a refresh token issued in the name of one fixed account *)
generateRefreshToken_fixed(userId, email, t) ==
  JwtSign("u1", "a@x.com", "refresh", JwtRefreshSecret, JwtRefreshExpiresIn, t)

generateRefreshToken(userId, email, t) ==
  JwtSign(userId, email, "refresh", JwtRefreshSecret, JwtRefreshExpiresIn, t)

(* parseInt(jwtAccessExpiresIn.replace(/[^0-9]/g, '')) * 60 *)
generateTokens(userId, email, t) ==
  [accessToken |-> generateAccessToken(userId, email, t),
   refreshToken |-> generateRefreshToken(userId, email, t),
   expiresIn |-> JwtAccessExpiresIn.n * 60]

NoTokens == [accessToken |-> NoToken, refreshToken |-> NoToken, expiresIn |-> 0]

(* a token of another issuer, signed without expiresIn: no exp claim *)
NoExpToken == [userId |-> "u1", email |-> "a@x.com", type |-> "access", iat |-> 0, exp |-> 0,
               sig |-> "foreign-secret"]

(* jwt.decode: the payload without a look at the signature, null (NoToken)  *)
(* for a string that is no JWT                                              *)
decodeToken(token) ==
  IF token.sig \in {"garbage", "none"} THEN NoToken
  ELSE [token EXCEPT !.sig = "none"]

(* the message of the Error verifyAccessToken throws, or "ok" *)
verifyAccessToken(token, t) ==
  LET r == JwtVerify(token, JwtAccessSecret, t) IN
  IF r = "TokenExpiredError" THEN "Access token expired"
  ELSE IF r = "JsonWebTokenError" THEN "Invalid access token"
  ELSE IF token.type # "access" THEN "Invalid token type"
  ELSE "ok"

(* isTokenExpired at second t: decoded.exp < currentTime *)
isTokenExpired(token, t) ==
  LET decoded == decodeToken(token) IN
  IF decoded = NoToken \/ decoded.exp = 0 THEN TRUE
  ELSE decoded.exp < t

(* the message of the Error verifyRefreshToken throws, or "ok" *)
verifyRefreshToken(token, t) ==
  LET r == JwtVerify(token, JwtRefreshSecret, t) IN
  IF r = "TokenExpiredError" THEN "Refresh token expired"
  ELSE IF r = "JsonWebTokenError" THEN "Invalid refresh token"
  ELSE IF token.type # "refresh" THEN "Invalid token type"
  ELSE "ok"

----------------------------------------------------------------------------
(* Password hasher: bcryptjs *)

Hash(pw) == [hashed |-> TRUE, text |-> pw]
Plain(pw) == [hashed |-> FALSE, text |-> pw]

(* bcrypt.compare(candidate, stored): false when stored is not a bcrypt hash *)
BcryptCompare(candidate, stored) == stored.hashed /\ stored.text = candidate

----------------------------------------------------------------------------
(* Results of a request *)

NoUser == [id |-> "", email |-> "", firstName |-> "", lastName |-> "",
           isEmailVerified |-> FALSE, createdAt |-> 0]

NoResult == [status |-> "none", name |-> "", message |-> "",
             tokens |-> NoTokens, user |-> NoUser, flag |-> FALSE]

Throw(name, message) == [NoResult EXCEPT !.status = "error", !.name = name, !.message = message]

InvalidCredentialsException(message) == Throw("InvalidCredentialsException", message)
UserNotFoundException(message) == Throw("UserNotFoundException", message)
PlainError(message) == Throw("Error", message)
VersionError == Throw("VersionError", "No matching document found")

Return(user, tokens) == [NoResult EXCEPT !.status = "ok", !.user = user, !.tokens = tokens]

(* a summary that hands out the whole record *)
UserResponse_full(id, u) ==
  [id |-> id, email |-> u.email, firstName |-> u.firstName, lastName |-> u.lastName,
   isEmailVerified |-> u.isEmailVerified, createdAt |-> u.createdAt,
   password |-> u.password, refreshTokens |-> u.refreshTokens,
   emailVerificationToken |-> u.emailVerificationToken,
   passwordResetToken |-> u.passwordResetToken]

(* the UserResponseDTO the use cases build from a user entity *)
UserResponse(id, u) ==
  [id |-> id, email |-> u.email, firstName |-> u.firstName, lastName |-> u.lastName,
   isEmailVerified |-> u.isEmailVerified, createdAt |-> u.createdAt]

----------------------------------------------------------------------------
(* User schema (persistence/models/UserDocument): document methods *)

NoOtt == 0
NoDate == -1

(* a push that replaces the array instead of extending it *)
addRefreshToken_overwrite(tokens, refreshToken) == <<refreshToken>>

addRefreshToken(tokens, refreshToken) == Append(tokens, refreshToken)

(* a filter with the comparison inverted *)
removeRefreshToken_inverted(tokens, refreshToken) ==
  SelectSeq(tokens, LAMBDA token : token = refreshToken)

removeRefreshToken(tokens, refreshToken) ==
  SelectSeq(tokens, LAMBDA token : token # refreshToken)

(* a membership test that lets every token through *)
hasRefreshToken_always(tokens, refreshToken) == TRUE

hasRefreshToken(tokens, refreshToken) ==
  \E i \in DOMAIN tokens : tokens[i] = refreshToken

(* a clear that forgets to assign the empty array *)
clearRefreshTokens_noop(tokens) == tokens

(* a clear that drops only the last token (pop) *)
clearRefreshTokens_pop(tokens) ==
  IF tokens = <<>> THEN <<>> ELSE SubSeq(tokens, 1, Len(tokens) - 1)

clearRefreshTokens(tokens) == <<>>

TokenSet(tokens) == {tokens[i] : i \in DOMAIN tokens}

(* email.toLowerCase() *)
ToLower(email) ==
  IF email = "A@x.com" THEN "a@x.com"
  ELSE IF email = "C@x.com" THEN "c@x.com"
  ELSE email

(* a lookup that compares the email as it was typed *)
findByEmail_exact(email) ==
  IF \E u \in DOMAIN store : store[u].email = email
  THEN CHOOSE u \in DOMAIN store : store[u].email = email
  ELSE ""

(* MongoUserRepository.findByEmail: the id of the record, "" for null *)
findByEmail(email) ==
  IF \E u \in DOMAIN store : store[u].email = ToLower(email)
  THEN CHOOSE u \in DOMAIN store : store[u].email = ToLower(email)
  ELSE ""

(* MongoUserRepository.findById *)
findById(id) == IF id \in DOMAIN store THEN id ELSE ""

----------------------------------------------------------------------------
(* Request slots.  Besides the locals of the use case a slot records what   *)
(* the properties need: whether the presented token had been consumed       *)
(* (wasConsumed), was active (activeAtStart) or belonged to a session of a  *)
(* replaced password (wasTainted) when the request started, which slot ran  *)
(* a Refresh of the same token at the same time (racedWith), whether any    *)
(* other request ran meanwhile (solo), the refreshTokens array before       *)
(* (seen) and after (left) the request's last save, and, for a Refresh that *)
(* presents the token the preceding Login or Refresh returned, how many     *)
(* refreshes the session has seen (depth) and the token its Login issued    *)
(* (origin).  A slot that issues a one-time token keeps the expiry it       *)
(* computed (expires); a slot that presents one records whether the clock   *)
(* stood exactly at the token's expiry (boundary).  A slot that hands a     *)
(* notification to the email service records whether it was delivered       *)
(* (sent).  A Login keeps the password it was given (tried) after the call  *)
(* has ended.  A Refresh under way when a LogoutAll of its user returns is   *)
(* marked (loggedOut).                                                      *)

NoLoc == [op |-> "none", email |-> "", password |-> "", token |-> NoToken,
          uid |-> "", user |-> NoUser, newTokens |-> NoTokens,
          doc |-> <<>>, stale |-> FALSE, res |-> NoResult,
          wasConsumed |-> FALSE, activeAtStart |-> FALSE, racedWith |-> "",
          solo |-> FALSE, seen |-> <<>>, wasTainted |-> FALSE, oldAuth |-> FALSE,
          ott |-> NoOtt, left |-> <<>>, afterClear |-> FALSE,
          origin |-> NoToken, depth |-> 0, expires |-> NoDate, boundary |-> FALSE,
          sent |-> FALSE, tried |-> "", loggedOut |-> FALSE]

(* slots that hold a document read by findById and not yet saved *)
DocHeld == {"rf_rm_save", "lo_save", "la_save", "rp_clear_save"}

RefreshInFlight == {"rf_has", "rf_rm_find", "rf_rm_save", "rf_add"}

Alone(p) == \A q \in Procs \ {p} : pc[q] = "idle"

Begin(p, op) == [NoLoc EXCEPT !.op = op, !.solo = Alone(p)]

(* The slots after a step of p: p's own locals are new; a save that changed *)
(* the refreshTokens array of user bump advances that document's version,   *)
(* so every other slot holding a copy of it now holds a stale one.          *)
Upd(p, new, bump) ==
  [q \in Procs |->
     IF q = p THEN new
     ELSE [loc[q] EXCEPT !.stale = @ \/ (bump # "" /\ bump = loc[q].uid /\ pc[q] \in DocHeld),
                         !.solo = @ /\ pc[q] = "idle"]]

(* a finished request keeps its inputs, its result and what it saw *)
Finish(p, l, res) ==
  [l EXCEPT !.res = res, !.doc = <<>>, !.stale = FALSE, !.password = "",
            !.user = NoUser, !.newTokens = NoTokens]

----------------------------------------------------------------------------
(* Initial state: two registered users, nobody logged in.  The remaining    *)
(* variables record history: known (tokens handed to clients), consumed     *)
(* (tokens a Refresh succeeded with and, as [ott |-> token], one-time       *)
(* tokens a VerifyEmail or ResetPassword succeeded with), active (per user, *)
(* the tokens the completed requests leave valid: a request that            *)
(* overlapped a change of                                                   *)
(* the array and saved nothing took effect when it read the array, so it    *)
(* does not count again when it returns), clearedSince (a LogoutAll has     *)
(* returned, nothing changed the array while it ran and no token has been   *)
(* issued since), tainted (tokens of sessions opened under a password that  *)
(* a completed reset has replaced), mail (delivered reset tokens).          *)

InitUser(email, first) ==
  [email |-> email, password |-> Hash("pw1"), firstName |-> first, lastName |-> "Doe",
   isEmailVerified |-> FALSE, emailVerificationToken |-> NoOtt, emailVerificationExpires |-> NoDate,
   passwordResetToken |-> NoOtt, passwordResetExpires |-> NoDate,
   refreshTokens |-> <<>>, createdAt |-> 0]

Init ==
  /\ store = [u \in Users |-> IF u = "u1" THEN InitUser("a@x.com", "Ann") ELSE InitUser("b@x.com", "Bob")]
  /\ now = 0
  /\ pc = [p \in Procs |-> "idle"]
  /\ loc = [p \in Procs |-> NoLoc]
  /\ known = {}
  /\ consumed = {}
  /\ active = [u \in Users |-> {}]
  /\ clearedSince = [u \in Users |-> FALSE]
  /\ ops = 0
  /\ tainted = {}
  /\ mail = {}
  /\ rand = 0

(* the clock advances by one second *)
Tick ==
  /\ ops < MaxOps
  /\ ops' = ops + 1
  /\ now' = now + 1
  /\ UNCHANGED <<store, pc, loc, known, consumed, active, clearedSince, tainted, mail, rand>>

----------------------------------------------------------------------------
(* LoginUserUseCase.execute *)

(* what a login throws: the same exception for an unknown email (uid "")  *)
(* and for a wrong password                                               *)
LoginFailure_leaky(uid) ==
  IF uid = "" THEN UserNotFoundException("User not found")
  ELSE InvalidCredentialsException("Invalid email or password")

LoginFailure(uid) == InvalidCredentialsException("Invalid email or password")

(* findByEmail, then bcrypt.compare against the record that was found *)
LoginFind(p, email, password) ==
  /\ pc[p] = "idle"
  /\ ops < MaxOps
  /\ ops' = ops + 1
  /\ LET uid == findByEmail(email) IN
     IF uid = "" \/ ~BcryptCompare(password, store[uid].password)
     THEN /\ pc' = pc
          /\ loc' = Upd(p, Finish(p, [Begin(p, "login") EXCEPT !.email = email, !.password = password,
                                                              !.tried = password],
                                  LoginFailure(uid)), "")
     ELSE /\ pc' = [pc EXCEPT ![p] = "login_gen"]
          /\ loc' = Upd(p, [Begin(p, "login") EXCEPT !.email = email, !.password = password,
                              !.tried = password, !.uid = uid, !.user = UserResponse(uid, store[uid])], "")
  /\ UNCHANGED <<store, now, known, consumed, active, clearedSince, tainted, mail, rand>>

(* tokenService.generateTokens(user.id, user.email), at the current second *)
LoginGenerate(p) ==
  /\ pc[p] = "login_gen"
  /\ pc' = [pc EXCEPT ![p] = "login_add"]
  /\ loc' = Upd(p, [loc[p] EXCEPT !.newTokens = generateTokens(loc[p].uid, loc[p].user.email, now)], "")
  /\ UNCHANGED <<store, now, known, consumed, active, clearedSince, tainted, mail, rand, ops>>

(* userRepository.addRefreshToken (push, save), then the return *)
LoginAdd(p) ==
  /\ pc[p] = "login_add"
  /\ LET u == loc[p].uid
         rt == loc[p].newTokens.refreshToken IN
     /\ store' = [store EXCEPT ![u].refreshTokens = addRefreshToken(@, rt)]
     /\ pc' = [pc EXCEPT ![p] = "idle"]
     /\ loc' = Upd(p, Finish(p, [loc[p] EXCEPT !.seen = store[u].refreshTokens,
                                                !.left = store'[u].refreshTokens],
                             Return(loc[p].user, loc[p].newTokens)), u)
     /\ known' = known \cup {rt, loc[p].newTokens.accessToken}
     /\ active' = [active EXCEPT ![u] = @ \cup {rt}]
     /\ clearedSince' = [clearedSince EXCEPT ![u] = FALSE]
     /\ tainted' = IF loc[p].oldAuth THEN tainted \cup {rt} ELSE tainted
  /\ UNCHANGED <<now, consumed, ops, mail, rand>>

----------------------------------------------------------------------------
(* RefreshTokenUseCase.execute *)

(* The slots whose Login or Refresh returned refreshToken as the last thing *)
(* that happened to the user's sessions: the call succeeded and the array   *)
(* is still as its save left it.                                            *)
Preceding(refreshToken) ==
  {q \in Procs : /\ pc[q] = "idle"
                 /\ loc[q].op \in {"login", "refresh"}
                 /\ loc[q].res.status = "ok"
                 /\ loc[q].res.tokens.refreshToken = refreshToken
                 /\ store[loc[q].uid].refreshTokens = loc[q].left}

(* verifyRefreshToken, then findById(decoded.userId) *)
RefreshVerify(p, refreshToken) ==
  /\ pc[p] = "idle"
  /\ ops < MaxOps
  /\ ops' = ops + 1
  /\ LET l == [Begin(p, "refresh") EXCEPT !.token = refreshToken,
                 !.wasConsumed = refreshToken \in consumed,
                 !.wasTainted = refreshToken \in tainted]
         v == verifyRefreshToken(refreshToken, now)
         uid == findById(refreshToken.userId) IN
     IF v # "ok"
     THEN /\ pc' = pc
          /\ loc' = Upd(p, Finish(p, l, PlainError(v)), "")
     ELSE IF uid = ""
     THEN /\ pc' = pc
          /\ loc' = Upd(p, Finish(p, l, UserNotFoundException("User not found")), "")
     ELSE /\ pc' = [pc EXCEPT ![p] = "rf_has"]
          /\ LET q == IF \E r \in Procs \ {p} : pc[r] \in RefreshInFlight /\ loc[r].token = refreshToken
                      THEN CHOOSE r \in Procs \ {p} : pc[r] \in RefreshInFlight /\ loc[r].token = refreshToken
                      ELSE ""
                 prev == IF Alone(p) /\ Preceding(refreshToken) # {}
                         THEN CHOOSE r \in Preceding(refreshToken) : TRUE ELSE ""
                 mine == [l EXCEPT !.uid = uid, !.user = UserResponse(uid, store[uid]),
                            !.activeAtStart = hasRefreshToken(store[uid].refreshTokens, refreshToken),
                            !.racedWith = q,
                            !.depth = IF prev = "" THEN 0 ELSE loc[prev].depth + 1,
                            !.origin = IF prev = "" THEN NoToken
                                       ELSE IF loc[prev].op = "login" THEN refreshToken
                                       ELSE loc[prev].origin] IN
             loc' = [r \in Procs |->
                       IF r = q THEN [Upd(p, mine, "")[r] EXCEPT !.racedWith = p]
                       ELSE Upd(p, mine, "")[r]]
  /\ UNCHANGED <<store, now, known, consumed, active, clearedSince, tainted, mail, rand>>

(* hasRefreshToken(user.id, refreshToken), then generateTokens *)
RefreshHas(p) ==
  /\ pc[p] = "rf_has"
  /\ IF ~hasRefreshToken(store[loc[p].uid].refreshTokens, loc[p].token)
     THEN /\ pc' = [pc EXCEPT ![p] = "idle"]
          /\ loc' = Upd(p, Finish(p, [loc[p] EXCEPT !.afterClear = clearedSince[loc[p].uid]],
                                  PlainError("Invalid refresh token")), "")
     ELSE /\ pc' = [pc EXCEPT ![p] = "rf_rm_find"]
          /\ loc' = Upd(p, [loc[p] EXCEPT !.newTokens = generateTokens(loc[p].uid, loc[p].user.email, now),
                                          !.afterClear = clearedSince[loc[p].uid]], "")
  /\ UNCHANGED <<store, now, known, consumed, active, clearedSince, tainted, mail, rand, ops>>

(* removeRefreshToken: findById *)
RefreshRemoveFind(p) ==
  /\ pc[p] = "rf_rm_find"
  /\ pc' = [pc EXCEPT ![p] = "rf_rm_save"]
  /\ loc' = Upd(p, [loc[p] EXCEPT !.doc = store[loc[p].uid].refreshTokens, !.stale = FALSE], "")
  /\ UNCHANGED <<store, now, known, consumed, active, clearedSince, tainted, mail, rand, ops>>

(* removeRefreshToken: userDoc.removeRefreshToken(refreshToken); save() *)
RefreshRemoveSave(p) ==
  /\ pc[p] = "rf_rm_save"
  /\ LET u == loc[p].uid
         after == removeRefreshToken(loc[p].doc, loc[p].token) IN
     IF after = loc[p].doc
     THEN /\ pc' = [pc EXCEPT ![p] = "rf_add"]
          /\ loc' = Upd(p, [loc[p] EXCEPT !.doc = <<>>, !.stale = FALSE], "")
          /\ store' = store
     ELSE IF loc[p].stale
     THEN /\ pc' = [pc EXCEPT ![p] = "idle"]
          /\ loc' = Upd(p, Finish(p, loc[p], VersionError), "")
          /\ store' = store
     ELSE /\ pc' = [pc EXCEPT ![p] = "rf_add"]
          /\ loc' = Upd(p, [loc[p] EXCEPT !.doc = <<>>, !.stale = FALSE], u)
          /\ store' = [store EXCEPT ![u].refreshTokens = after]
  /\ UNCHANGED <<now, known, consumed, active, clearedSince, tainted, mail, rand, ops>>

(* addRefreshToken(user.id, newTokens.refreshToken), then the return *)
RefreshAdd(p) ==
  /\ pc[p] = "rf_add"
  /\ LET u == loc[p].uid
         rt == loc[p].newTokens.refreshToken IN
     /\ store' = [store EXCEPT ![u].refreshTokens = addRefreshToken(@, rt)]
     /\ pc' = [pc EXCEPT ![p] = "idle"]
     /\ loc' = Upd(p, Finish(p, [loc[p] EXCEPT !.seen = store[u].refreshTokens,
                                                !.left = store'[u].refreshTokens],
                             Return(NoUser, loc[p].newTokens)), u)
     /\ known' = known \cup {rt, loc[p].newTokens.accessToken}
     /\ consumed' = consumed \cup {loc[p].token}
     /\ active' = [active EXCEPT ![u] = (@ \ {loc[p].token}) \cup {rt}]
     /\ clearedSince' = [clearedSince EXCEPT ![u] = FALSE]
     /\ tainted' = IF loc[p].oldAuth \/ loc[p].token \in tainted THEN tainted \cup {rt} ELSE tainted
  /\ UNCHANGED <<now, ops, mail, rand>>

(* addRefreshToken rejects: the store is unreachable when findById or       *)
(* save() is called; the error leaves execute, nothing is written           *)
StoreError == Throw("MongoNetworkError", "connection closed")

RefreshAddFails(p) ==
  /\ pc[p] = "rf_add"
  /\ pc' = [pc EXCEPT ![p] = "idle"]
  /\ loc' = Upd(p, Finish(p, [loc[p] EXCEPT !.seen = store[loc[p].uid].refreshTokens,
                                             !.left = store[loc[p].uid].refreshTokens],
                          StoreError), "")
  /\ UNCHANGED <<store, now, known, consumed, active, clearedSince, tainted, mail, rand, ops>>

----------------------------------------------------------------------------
(* LogoutUseCase.execute *)

(* findById(userId), then removeRefreshToken: findById *)
LogoutFind(p, userId, refreshToken) ==
  /\ pc[p] = "idle"
  /\ ops < MaxOps
  /\ ops' = ops + 1
  /\ LET l == [Begin(p, "logout") EXCEPT !.token = refreshToken, !.uid = userId] IN
     IF findById(userId) = ""
     THEN /\ pc' = pc
          /\ loc' = Upd(p, Finish(p, l, UserNotFoundException("User not found")), "")
     ELSE /\ pc' = [pc EXCEPT ![p] = "lo_save"]
          /\ loc' = Upd(p, [l EXCEPT !.doc = store[userId].refreshTokens], "")
  /\ UNCHANGED <<store, now, known, consumed, active, clearedSince, tainted, mail, rand>>

(* removeRefreshToken: userDoc.removeRefreshToken(refreshToken); save() *)
LogoutSave(p) ==
  /\ pc[p] = "lo_save"
  /\ LET u == loc[p].uid
         after == removeRefreshToken(loc[p].doc, loc[p].token)
         modified == after # loc[p].doc
         ok == ~modified \/ ~loc[p].stale IN
     /\ store' = IF modified /\ ok THEN [store EXCEPT ![u].refreshTokens = after] ELSE store
     /\ pc' = [pc EXCEPT ![p] = "idle"]
     /\ loc' = Upd(p, Finish(p, [loc[p] EXCEPT !.seen = store[u].refreshTokens,
                                                !.left = store'[u].refreshTokens],
                             IF ok THEN Return(NoUser, NoTokens) ELSE VersionError),
                   IF modified /\ ok THEN u ELSE "")
     /\ active' = IF ok /\ ~loc[p].stale THEN [active EXCEPT ![u] = @ \ {loc[p].token}] ELSE active
  /\ UNCHANGED <<now, known, consumed, clearedSince, ops, tainted, mail, rand>>

----------------------------------------------------------------------------
(* LogoutAllDevicesUseCase.execute *)

(* findById(userId), then clearRefreshTokens: findById *)
LogoutAllFind(p, userId) ==
  /\ pc[p] = "idle"
  /\ ops < MaxOps
  /\ ops' = ops + 1
  /\ LET l == [Begin(p, "logoutAll") EXCEPT !.uid = userId] IN
     IF findById(userId) = ""
     THEN /\ pc' = pc
          /\ loc' = Upd(p, Finish(p, l, UserNotFoundException("User not found")), "")
     ELSE /\ pc' = [pc EXCEPT ![p] = "la_save"]
          /\ loc' = Upd(p, [l EXCEPT !.doc = store[userId].refreshTokens], "")
  /\ UNCHANGED <<store, now, known, consumed, active, clearedSince, tainted, mail, rand>>

(* clearRefreshTokens: userDoc.clearRefreshTokens(); save() *)
LogoutAllSave(p) ==
  /\ pc[p] = "la_save"
  /\ LET u == loc[p].uid
         after == clearRefreshTokens(loc[p].doc)
         modified == after # loc[p].doc
         ok == ~modified \/ ~loc[p].stale
         base == Upd(p, Finish(p, [loc[p] EXCEPT !.seen = store[u].refreshTokens,
                                                  !.left = store'[u].refreshTokens],
                               IF ok THEN Return(NoUser, NoTokens) ELSE VersionError),
                     IF modified /\ ok THEN u ELSE "") IN
     /\ store' = IF modified /\ ok THEN [store EXCEPT ![u].refreshTokens = after] ELSE store
     /\ pc' = [pc EXCEPT ![p] = "idle"]
     /\ loc' = [q \in Procs |->
                  IF q # p /\ ok /\ pc[q] \in RefreshInFlight /\ loc[q].uid = u
                  THEN [base[q] EXCEPT !.loggedOut = TRUE] ELSE base[q]]
     /\ active' = IF ok /\ ~loc[p].stale THEN [active EXCEPT ![u] = {}] ELSE active
     /\ clearedSince' = IF ok /\ ~loc[p].stale THEN [clearedSince EXCEPT ![u] = TRUE]
                       ELSE clearedSince
  /\ UNCHANGED <<now, known, consumed, ops, tainted, mail, rand>>

----------------------------------------------------------------------------
(* One-time tokens: crypto.randomBytes(32).toString('hex') never repeats;   *)
(* the n-th token drawn is the number n.                                    *)

RandomToken == rand + 1

ResetTokenSeconds == 3600

(* a lookup that still accepts the token at its expiry instant ($gte) *)
findByPasswordResetToken_inclusive(token) ==
  IF \E u \in DOMAIN store : store[u].passwordResetToken = token /\ store[u].passwordResetExpires >= now
  THEN CHOOSE u \in DOMAIN store : store[u].passwordResetToken = token /\ store[u].passwordResetExpires >= now
  ELSE ""

(* MongoUserRepository.findByPasswordResetToken: the expiry is in the future *)
findByPasswordResetToken(token) ==
  IF \E u \in DOMAIN store : store[u].passwordResetToken = token /\ store[u].passwordResetExpires > now
  THEN CHOOSE u \in DOMAIN store : store[u].passwordResetToken = token /\ store[u].passwordResetExpires > now
  ELSE ""

----------------------------------------------------------------------------
(* RequestPasswordResetUseCase.execute *)

(* a request that tells the caller that the email is unknown *)
UnknownEmailResult_telling == UserNotFoundException("User not found")

(* if (!user) return: "Don't reveal if user exists or not" *)
UnknownEmailResult == Return(NoUser, NoTokens)

(* findByEmail; an unknown email returns without a word *)
RequestFind(p, email) ==
  /\ pc[p] = "idle"
  /\ ops < MaxOps
  /\ ops' = ops + 1
  /\ LET uid == findByEmail(email)
         l == [Begin(p, "request") EXCEPT !.email = email] IN
     IF uid = ""
     THEN /\ pc' = pc
          /\ loc' = Upd(p, Finish(p, l, UnknownEmailResult), "")
          /\ rand' = rand
     ELSE /\ pc' = [pc EXCEPT ![p] = "rq_update"]
          /\ loc' = Upd(p, [l EXCEPT !.uid = uid, !.ott = RandomToken,
                                     !.expires = now + ResetTokenSeconds], "")
          /\ rand' = rand + 1
  /\ UNCHANGED <<store, now, known, consumed, active, clearedSince, tainted, mail>>

(* an update that replaces the document instead of setting the two fields: *)
(* the fields it does not name fall back to the schema defaults             *)
RequestUpdate_replace(p) ==
  /\ pc[p] = "rq_update"
  /\ pc' = [pc EXCEPT ![p] = "rq_send"]
  /\ store' = [store EXCEPT ![loc[p].uid].passwordResetToken = loc[p].ott,
                            ![loc[p].uid].passwordResetExpires = loc[p].expires,
                            ![loc[p].uid].isEmailVerified = FALSE]
  /\ loc' = Upd(p, loc[p], "")
  /\ UNCHANGED <<now, known, consumed, active, clearedSince, ops, tainted, mail, rand>>

(* update(user.id, {passwordResetToken, passwordResetExpires}): the expiry  *)
(* is the Date.now() + 1h computed when update was called                   *)
RequestUpdate(p) ==
  /\ pc[p] = "rq_update"
  /\ pc' = [pc EXCEPT ![p] = "rq_send"]
  /\ store' = [store EXCEPT ![loc[p].uid].passwordResetToken = loc[p].ott,
                            ![loc[p].uid].passwordResetExpires = loc[p].expires]
  /\ loc' = Upd(p, loc[p], "")
  /\ UNCHANGED <<now, known, consumed, active, clearedSince, ops, tainted, mail, rand>>

(* emailService.sendPasswordResetEmail: delivered, or it throws *)
RequestSend(p, delivered) ==
  /\ pc[p] = "rq_send"
  /\ pc' = [pc EXCEPT ![p] = "idle"]
  /\ IF delivered
     THEN /\ mail' = mail \cup {loc[p].ott}
          /\ loc' = Upd(p, Finish(p, [loc[p] EXCEPT !.sent = TRUE], Return(NoUser, NoTokens)), "")
     ELSE /\ mail' = mail
          /\ loc' = Upd(p, Finish(p, loc[p], PlainError("Failed to send password reset email")), "")
  /\ UNCHANGED <<store, now, known, consumed, active, clearedSince, ops, tainted, rand>>

----------------------------------------------------------------------------
(* ResetPasswordUseCase.execute *)

(* findByPasswordResetToken(token) *)
ResetFind(p, token, newPassword) ==
  /\ pc[p] = "idle"
  /\ ops < MaxOps
  /\ ops' = ops + 1
  /\ LET uid == findByPasswordResetToken(token)
         l == [Begin(p, "reset") EXCEPT !.ott = token, !.password = newPassword,
                 !.wasConsumed = [ott |-> token] \in consumed,
                 !.boundary = \E u \in DOMAIN store :
                                 /\ token # NoOtt
                                 /\ store[u].passwordResetToken = token
                                 /\ store[u].passwordResetExpires = now] IN
     IF uid = ""
     THEN /\ pc' = pc
          /\ loc' = Upd(p, Finish(p, l, UserNotFoundException("Invalid or expired reset token")), "")
     ELSE /\ pc' = [pc EXCEPT ![p] = "rp_update"]
          /\ loc' = Upd(p, [l EXCEPT !.uid = uid], "")
  /\ UNCHANGED <<store, now, known, consumed, active, clearedSince, tainted, mail, rand>>

(* update(user.id, {password: newPassword, passwordResetToken: undefined,   *)
(* passwordResetExpires: undefined}): findByIdAndUpdate with $set runs no   *)
(* save hook, so the password is stored as given; a key whose value is      *)
(* undefined is dropped from the update or written as null, depending on    *)
(* the Mongoose release (cleared chooses).                                  *)
ResetUpdate(p, cleared) ==
  /\ pc[p] = "rp_update"
  /\ pc' = [pc EXCEPT ![p] = "rp_clear_find"]
  /\ LET u == loc[p].uid
         updated == [store[u] EXCEPT
                       !.password = Plain(loc[p].password),
                       !.passwordResetToken = IF cleared THEN NoOtt ELSE @,
                       !.passwordResetExpires = IF cleared THEN NoDate ELSE @] IN
     /\ store' = [store EXCEPT ![u] = updated]
     /\ loc' = Upd(p, [loc[p] EXCEPT !.user = UserResponse(u, updated)], "")
  /\ UNCHANGED <<now, known, consumed, active, clearedSince, ops, tainted, mail, rand>>

(* clearRefreshTokens: findById *)
ResetClearFind(p) ==
  /\ pc[p] = "rp_clear_find"
  /\ pc' = [pc EXCEPT ![p] = "rp_clear_save"]
  /\ loc' = Upd(p, [loc[p] EXCEPT !.doc = store[loc[p].uid].refreshTokens, !.stale = FALSE], "")
  /\ UNCHANGED <<store, now, known, consumed, active, clearedSince, ops, tainted, mail, rand>>

(* the sessions of user u that exist when a password reset returns: every   *)
(* refresh token handed out for u so far                                    *)
SessionsOf(u) == {t \in known : t.userId = u /\ t.type = "refresh"}

(* a request of user u that has already authenticated against the record *)
Authenticated(q, u) ==
  /\ loc[q].uid = u
  /\ pc[q] \in {"login_gen", "login_add", "rf_has", "rf_rm_find", "rf_rm_save", "rf_add"}

(* clearRefreshTokens: userDoc.clearRefreshTokens(); save(); the return *)
ResetClearSave(p) ==
  /\ pc[p] = "rp_clear_save"
  /\ LET u == loc[p].uid
         after == clearRefreshTokens(loc[p].doc)
         modified == after # loc[p].doc
         ok == ~modified \/ ~loc[p].stale
         base == Upd(p, Finish(p, [loc[p] EXCEPT !.seen = store[u].refreshTokens,
                                                  !.left = store'[u].refreshTokens],
                               IF ok THEN Return(loc[p].user, NoTokens) ELSE VersionError),
                     IF modified /\ ok THEN u ELSE "") IN
     /\ store' = IF modified /\ ok THEN [store EXCEPT ![u].refreshTokens = after] ELSE store
     /\ pc' = [pc EXCEPT ![p] = "idle"]
     /\ loc' = [q \in Procs |->
                  IF q # p /\ ok /\ Authenticated(q, u)
                  THEN [base[q] EXCEPT !.oldAuth = TRUE] ELSE base[q]]
     /\ active' = IF ok /\ ~loc[p].stale THEN [active EXCEPT ![u] = {}] ELSE active
     /\ tainted' = IF ok THEN tainted \cup SessionsOf(u) ELSE tainted
     /\ consumed' = IF ok THEN consumed \cup {[ott |-> loc[p].ott]} ELSE consumed
  /\ UNCHANGED <<now, known, clearedSince, ops, mail, rand>>

----------------------------------------------------------------------------
(* Accounts: registration and email verification *)

VerificationTokenSeconds == 86400

(* new ObjectId(): the ids the store hands out to new records, in order *)
NewIds == <<"u3", "u4">>

NewId == NewIds[Cardinality(DOMAIN store) - Cardinality(Users) + 1]

MongoServerError == Throw("MongoServerError", "E11000 duplicate key error")

(* a schema whose email path is not declared unique *)
DuplicateKey_noindex(email) == FALSE

(* the unique index on email (unique: true, lowercase: true) *)
DuplicateKey(email) == \E u \in DOMAIN store : store[u].email = ToLower(email)

(* MongoUserRepository.findByVerificationToken: the expiry is in the future *)
findByVerificationToken(token) ==
  IF \E u \in DOMAIN store : store[u].emailVerificationToken = token /\ store[u].emailVerificationExpires > now
  THEN CHOOSE u \in DOMAIN store : store[u].emailVerificationToken = token /\ store[u].emailVerificationExpires > now
  ELSE ""

----------------------------------------------------------------------------
(* RegisterUserUseCase.execute *)

(* findByEmail(userData.email): an existing record ends the call *)
RegisterFind(p, email, password) ==
  /\ pc[p] = "idle"
  /\ ops < MaxOps
  /\ ops' = ops + 1
  /\ LET l == [Begin(p, "register") EXCEPT !.email = email, !.password = password] IN
     IF findByEmail(email) # ""
     THEN /\ pc' = pc
          /\ loc' = Upd(p, Finish(p, l, UserNotFoundException("User with this email already exists")), "")
     ELSE /\ pc' = [pc EXCEPT ![p] = "rg_create"]
          /\ loc' = Upd(p, l, "")
  /\ UNCHANGED <<store, now, known, consumed, active, clearedSince, tainted, mail, rand>>

(* userRepository.create: new UserDocument({...userData,                    *)
(* emailVerificationToken: undefined, emailVerificationExpires: undefined}) *)
(* and save(): the schema lowercases the email and applies its defaults,    *)
(* the save hook hashes the password, the unique index rejects a second     *)
(* record with the same email.                                              *)
RegisterCreate(p) ==
  /\ pc[p] = "rg_create"
  /\ IF DuplicateKey(loc[p].email)
     THEN /\ pc' = [pc EXCEPT ![p] = "idle"]
          /\ loc' = Upd(p, Finish(p, loc[p], MongoServerError), "")
          /\ store' = store
     ELSE /\ Cardinality(DOMAIN store) < Cardinality(Users) + Len(NewIds)
          /\ LET id == NewId
                 doc == [email |-> ToLower(loc[p].email), password |-> Hash(loc[p].password),
                         firstName |-> "Cy", lastName |-> "Doe",
                         isEmailVerified |-> FALSE,
                         emailVerificationToken |-> NoOtt, emailVerificationExpires |-> NoDate,
                         passwordResetToken |-> NoOtt, passwordResetExpires |-> NoDate,
                         refreshTokens |-> <<>>, createdAt |-> now] IN
             /\ store' = [u \in DOMAIN store \cup {id} |-> IF u = id THEN doc ELSE store[u]]
             /\ pc' = [pc EXCEPT ![p] = "rg_send"]
             /\ loc' = Upd(p, [loc[p] EXCEPT !.uid = id, !.user = UserResponse(id, doc),
                                             !.ott = doc.emailVerificationToken], "")
  /\ UNCHANGED <<now, known, consumed, active, clearedSince, ops, tainted, mail, rand>>

(* emailService.sendVerificationEmail(user.email, user.firstName,           *)
(* user.emailVerificationToken): a failure is caught and logged             *)
RegisterSend(p, delivered) ==
  /\ pc[p] = "rg_send"
  /\ pc' = [pc EXCEPT ![p] = "idle"]
  /\ mail' = IF delivered THEN mail \cup {loc[p].ott} ELSE mail
  /\ loc' = Upd(p, Finish(p, [loc[p] EXCEPT !.sent = delivered], Return(loc[p].user, NoTokens)), "")
  /\ UNCHANGED <<store, now, known, consumed, active, clearedSince, ops, tainted, rand>>

----------------------------------------------------------------------------
(* ResendVerificationUseCase.execute *)

(* findByEmail, the isEmailVerified check, crypto.randomBytes *)
ResendFind(p, email) ==
  /\ pc[p] = "idle"
  /\ ops < MaxOps
  /\ ops' = ops + 1
  /\ LET uid == findByEmail(email)
         l == [Begin(p, "resend") EXCEPT !.email = email] IN
     IF uid = ""
     THEN /\ pc' = pc
          /\ loc' = Upd(p, Finish(p, l, UserNotFoundException("User not found")), "")
          /\ rand' = rand
     ELSE IF store[uid].isEmailVerified
     THEN /\ pc' = pc
          /\ loc' = Upd(p, Finish(p, l, PlainError("Email is already verified")), "")
          /\ rand' = rand
     ELSE /\ pc' = [pc EXCEPT ![p] = "rs_update"]
          /\ loc' = Upd(p, [l EXCEPT !.uid = uid, !.ott = RandomToken,
                                     !.expires = now + VerificationTokenSeconds], "")
          /\ rand' = rand + 1
  /\ UNCHANGED <<store, now, known, consumed, active, clearedSince, tainted, mail>>

(* an update that renews the expiry and keeps the token the record has *)
ResendUpdate_keep(p) ==
  /\ pc[p] = "rs_update"
  /\ pc' = [pc EXCEPT ![p] = "rs_send"]
  /\ store' = [store EXCEPT ![loc[p].uid].emailVerificationToken =
                               IF @ = NoOtt THEN loc[p].ott ELSE @,
                            ![loc[p].uid].emailVerificationExpires = loc[p].expires]
  /\ loc' = Upd(p, [loc[p] EXCEPT !.ott = store'[loc[p].uid].emailVerificationToken], "")
  /\ UNCHANGED <<now, known, consumed, active, clearedSince, ops, tainted, mail, rand>>

(* update(user.id, {emailVerificationToken, emailVerificationExpires}) *)
ResendUpdate(p) ==
  /\ pc[p] = "rs_update"
  /\ pc' = [pc EXCEPT ![p] = "rs_send"]
  /\ store' = [store EXCEPT ![loc[p].uid].emailVerificationToken = loc[p].ott,
                            ![loc[p].uid].emailVerificationExpires = loc[p].expires]
  /\ loc' = Upd(p, loc[p], "")
  /\ UNCHANGED <<now, known, consumed, active, clearedSince, ops, tainted, mail, rand>>

(* a resend that catches the failure of the email service, as Register does *)
ResendSend_swallow(p, delivered) ==
  /\ pc[p] = "rs_send"
  /\ pc' = [pc EXCEPT ![p] = "idle"]
  /\ mail' = IF delivered THEN mail \cup {loc[p].ott} ELSE mail
  /\ loc' = Upd(p, Finish(p, [loc[p] EXCEPT !.sent = delivered], Return(NoUser, NoTokens)), "")
  /\ UNCHANGED <<store, now, known, consumed, active, clearedSince, ops, tainted, rand>>

(* emailService.sendVerificationEmail: delivered, or it throws *)
ResendSend(p, delivered) ==
  /\ pc[p] = "rs_send"
  /\ pc' = [pc EXCEPT ![p] = "idle"]
  /\ IF delivered
     THEN /\ mail' = mail \cup {loc[p].ott}
          /\ loc' = Upd(p, Finish(p, [loc[p] EXCEPT !.sent = TRUE], Return(NoUser, NoTokens)), "")
     ELSE /\ mail' = mail
          /\ loc' = Upd(p, Finish(p, loc[p], PlainError("Failed to send verification email")), "")
  /\ UNCHANGED <<store, now, known, consumed, active, clearedSince, ops, tainted, rand>>

----------------------------------------------------------------------------
(* VerifyEmailUseCase.execute *)

(* findByVerificationToken(token) *)
VerifyFind(p, token) ==
  /\ pc[p] = "idle"
  /\ ops < MaxOps
  /\ ops' = ops + 1
  /\ LET uid == findByVerificationToken(token)
         l == [Begin(p, "verify") EXCEPT !.ott = token,
                 !.wasConsumed = [ott |-> token] \in consumed,
                 !.boundary = \E u \in DOMAIN store :
                                 /\ token # NoOtt
                                 /\ store[u].emailVerificationToken = token
                                 /\ store[u].emailVerificationExpires = now] IN
     IF uid = ""
     THEN /\ pc' = pc
          /\ loc' = Upd(p, Finish(p, l, UserNotFoundException("Invalid or expired verification token")), "")
     ELSE /\ pc' = [pc EXCEPT ![p] = "ve_update"]
          /\ loc' = Upd(p, [l EXCEPT !.uid = uid], "")
  /\ UNCHANGED <<store, now, known, consumed, active, clearedSince, tainted, mail, rand>>

(* update(user.id, {isEmailVerified: true, emailVerificationToken:          *)
(* undefined, emailVerificationExpires: undefined}), then the return: a key *)
(* whose value is undefined is dropped from the $set or written as null,    *)
(* depending on the Mongoose release (cleared chooses).                     *)
VerifyUpdate(p, cleared) ==
  /\ pc[p] = "ve_update"
  /\ pc' = [pc EXCEPT ![p] = "idle"]
  /\ LET u == loc[p].uid
         updated == [store[u] EXCEPT
                       !.isEmailVerified = TRUE,
                       !.emailVerificationToken = IF cleared THEN NoOtt ELSE @,
                       !.emailVerificationExpires = IF cleared THEN NoDate ELSE @] IN
     /\ store' = [store EXCEPT ![u] = updated]
     /\ loc' = Upd(p, Finish(p, loc[p], Return(UserResponse(u, updated), NoTokens)), "")
  /\ consumed' = consumed \cup {[ott |-> loc[p].ott]}
  /\ UNCHANGED <<now, known, active, clearedSince, ops, tainted, mail, rand>>

----------------------------------------------------------------------------
(* GetUserProfileUseCase.execute: findById, then the user summary *)
GetProfile(p, userId) ==
  /\ pc[p] = "idle"
  /\ ops < MaxOps
  /\ ops' = ops + 1
  /\ LET l == [Begin(p, "profile") EXCEPT !.uid = userId] IN
     loc' = Upd(p, Finish(p, l, IF findById(userId) = ""
                                THEN UserNotFoundException("User not found")
                                ELSE Return(UserResponse(userId, store[userId]), NoTokens)), "")
  /\ UNCHANGED <<store, now, pc, known, consumed, active, clearedSince, tainted, mail, rand>>

----------------------------------------------------------------------------
(* The protected routes: AuthMiddleware.authenticateToken in front of the   *)
(* handlers of AuthController                                               *)

ProtectedRoutes == {"POST /logout", "POST /logout-all", "GET /profile"}

(* res.status(code).json({success: false, message}) *)
HttpError(code, message) == Throw(code, message)

(* AuthMiddleware.authenticateToken: a request without a token is answered  *)
(* with 401; any other request is passed on (next) as it came: the token is *)
(* not verified and req.user is not set                                     *)
authenticateToken(token) ==
  IF token = NoToken
  THEN [next |-> FALSE, user |-> NoUser, res |-> HttpError("401", "Access token is required")]
  ELSE [next |-> TRUE, user |-> NoUser, res |-> NoResult]

(* authService.logout, logoutAllDevices and getUserProfile for req.user.id, *)
(* run from the first step to the last                                      *)
RunProtected(route, userId, refreshToken) ==
  IF findById(userId) = ""
  THEN [store |-> store, res |-> UserNotFoundException("User not found")]
  ELSE IF route = "POST /logout"
  THEN [store |-> [store EXCEPT ![userId].refreshTokens = removeRefreshToken(@, refreshToken)],
        res |-> Return(NoUser, NoTokens)]
  ELSE IF route = "POST /logout-all"
  THEN [store |-> [store EXCEPT ![userId].refreshTokens = clearRefreshTokens(@)],
        res |-> Return(NoUser, NoTokens)]
  ELSE [store |-> store, res |-> Return(UserResponse(userId, store[userId]), NoTokens)]

(* AuthController.logout, logoutAllDevices, getProfile: logout looks at the *)
(* body first, every handler then asks for req.user                         *)
AuthController(route, user, refreshToken) ==
  IF route = "POST /logout" /\ refreshToken = NoToken
  THEN [store |-> store, res |-> HttpError("400", "Refresh token is required")]
  ELSE IF user = NoUser
  THEN [store |-> store, res |-> HttpError("401", "Authentication required")]
  ELSE RunProtected(route, user.id, refreshToken)

(* a request to a protected route with the bearer token of its              *)
(* Authorization header and the refreshToken of its body                    *)
Protected(p, route, bearer, refreshToken) ==
  /\ pc[p] = "idle"
  /\ ops < MaxOps
  /\ ops' = ops + 1
  /\ LET a == authenticateToken(bearer)
         out == IF a.next THEN AuthController(route, a.user, refreshToken)
                ELSE [store |-> store, res |-> a.res]
         l == [Begin(p, route) EXCEPT !.token = bearer] IN
     /\ store' = out.store
     /\ loc' = Upd(p, Finish(p, l, out.res), "")
  /\ UNCHANGED <<now, pc, known, consumed, active, clearedSince, tainted, mail, rand>>

----------------------------------------------------------------------------
(* TokenService on its own: a caller has a pair issued and presents tokens  *)
(* to the verifiers and to isTokenExpired, now and later.                   *)

(* generateTokens(userId, email) *)
TokenIssue(p, userId, email) ==
  /\ pc[p] \in {"idle", "tk_held"}
  /\ ops < MaxOps
  /\ ops' = ops + 1
  /\ pc' = [pc EXCEPT ![p] = "tk_held"]
  /\ LET pair == generateTokens(userId, email, now) IN
     /\ loc' = [loc EXCEPT ![p] = [NoLoc EXCEPT !.op = "issue", !.uid = userId, !.email = email,
                                                 !.newTokens = pair]]
     /\ known' = known \cup {pair.accessToken, pair.refreshToken}
  /\ UNCHANGED <<store, now, consumed, active, clearedSince, tainted, mail, rand>>

(* the payload a verifier returns, as the id and email of a user summary *)
Payload(token) ==
  [NoUser EXCEPT !.id = decodeToken(token).userId, !.email = decodeToken(token).email]

(* verifyAccessToken(token) *)
TokenVerifyAccess(p, token) ==
  /\ pc[p] = "tk_held"
  /\ ops < MaxOps
  /\ ops' = ops + 1
  /\ LET v == verifyAccessToken(token, now) IN
     loc' = [loc EXCEPT ![p].op = "verifyAccess", ![p].token = token,
                        ![p].res = IF v = "ok" THEN Return(Payload(token), NoTokens)
                                   ELSE PlainError(v)]
  /\ UNCHANGED <<store, now, pc, known, consumed, active, clearedSince, tainted, mail, rand>>

(* verifyRefreshToken(token) *)
TokenVerifyRefresh(p, token) ==
  /\ pc[p] = "tk_held"
  /\ ops < MaxOps
  /\ ops' = ops + 1
  /\ LET v == verifyRefreshToken(token, now) IN
     loc' = [loc EXCEPT ![p].op = "verifyRefresh", ![p].token = token,
                        ![p].res = IF v = "ok" THEN Return(Payload(token), NoTokens)
                                   ELSE PlainError(v)]
  /\ UNCHANGED <<store, now, pc, known, consumed, active, clearedSince, tainted, mail, rand>>

(* isTokenExpired(token): the boolean it returns is the flag of the result *)
TokenIsExpired(p, token) ==
  /\ pc[p] = "tk_held"
  /\ ops < MaxOps
  /\ ops' = ops + 1
  /\ loc' = [loc EXCEPT ![p].op = "isExpired", ![p].token = token,
                        ![p].res = [Return(NoUser, NoTokens) EXCEPT !.flag = isTokenExpired(token, now)]]
  /\ UNCHANGED <<store, now, pc, known, consumed, active, clearedSince, tainted, mail, rand>>

----------------------------------------------------------------------------
(* The session lifecycle: every request of every slot, and the clock *)

UserIds == Users \cup {"u0"}

Presentable == known \cup {GarbageToken}

LoginBy(p) ==
  \/ \E email \in LoginEmails, password \in Passwords : LoginFind(p, email, password)
  \/ LoginGenerate(p)
  \/ LoginAdd(p)

Login == \E p \in Procs : LoginBy(p)

RefreshBy(p) ==
  \/ \E t \in Presentable : RefreshVerify(p, t)
  \/ RefreshHas(p)
  \/ RefreshRemoveFind(p)
  \/ RefreshRemoveSave(p)
  \/ RefreshAdd(p)

Refresh == \E p \in Procs : RefreshBy(p)

LogoutBy(p) ==
  \/ \E userId \in Users, t \in Presentable : LogoutFind(p, userId, t)
  \/ LogoutFind(p, "u0", GarbageToken)
  \/ LogoutSave(p)

Logout == \E p \in Procs : LogoutBy(p)

LogoutAllBy(p) ==
  \/ \E userId \in UserIds : LogoutAllFind(p, userId)
  \/ LogoutAllSave(p)

LogoutAll == \E p \in Procs : LogoutAllBy(p)

Next == Login \/ Refresh \/ Logout \/ LogoutAll \/ Tick

Spec == Init /\ [][Next]_vars

(* Login and Refresh of one client over a store that may fail when the new  *)
(* refresh token is to be added, and that has lost a record: the client     *)
(* also presents the refresh token of a user whose record is gone           *)

OrphanToken == generateRefreshToken("u0", "gone@x.com", 0)

NextFault ==
  \/ LoginBy("p1") \/ RefreshBy("p1") \/ RefreshVerify("p1", OrphanToken)
  \/ RefreshAddFails("p1") \/ Tick

SpecFault == Init /\ [][NextFault]_vars

(* The password-reset lifecycle next to login and refresh *)

ResetTokens == mail \cup {NoOtt}

RequestPasswordResetBy(p) ==
  \/ \E email \in LoginEmails : RequestFind(p, email)
  \/ RequestUpdate(p)
  \/ \E delivered \in BOOLEAN : RequestSend(p, delivered)

RequestPasswordReset == \E p \in Procs : RequestPasswordResetBy(p)

ResetPasswordBy(p) ==
  \/ \E token \in ResetTokens, newPassword \in Passwords : ResetFind(p, token, newPassword)
  \/ \E cleared \in BOOLEAN : ResetUpdate(p, cleared)
  \/ ResetClearFind(p)
  \/ ResetClearSave(p)

ResetPassword == \E p \in Procs : ResetPasswordBy(p)

NextReset == Login \/ Refresh \/ RequestPasswordReset \/ ResetPassword \/ Tick

SpecReset == Init /\ [][NextReset]_vars

(* The account lifecycle: registration and email verification *)

RegisterEmails == {"A@x.com", "c@x.com", "C@x.com"}

ResendEmails == {"a@x.com", "c@x.com", "nobody@x.com"}

OneTimeTokens == mail \cup {NoOtt}

RegisterBy(p) ==
  \/ \E email \in RegisterEmails, password \in Passwords : RegisterFind(p, email, password)
  \/ RegisterCreate(p)
  \/ \E delivered \in BOOLEAN : RegisterSend(p, delivered)

Register == \E p \in Procs : RegisterBy(p)

ResendVerificationBy(p) ==
  \/ \E email \in ResendEmails : ResendFind(p, email)
  \/ ResendUpdate(p)
  \/ \E delivered \in BOOLEAN : ResendSend(p, delivered)

ResendVerification == \E p \in Procs : ResendVerificationBy(p)

VerifyEmailBy(p) ==
  \/ \E token \in OneTimeTokens : VerifyFind(p, token)
  \/ \E cleared \in BOOLEAN : VerifyUpdate(p, cleared)

VerifyEmail == \E p \in Procs : VerifyEmailBy(p)

NextAccount == Register \/ ResendVerification \/ VerifyEmail \/ Tick

SpecAccount == Init /\ [][NextAccount]_vars

(* The life of a one-time token: requests that issue and present            *)
(* verification and reset tokens, one after the other, under a clock that   *)
(* runs up to the instants at which a stored token is about to expire or    *)
(* expires.                                                                 *)

(* the expiry instants of the one-time tokens in the store *)
Expiries ==
  {store[u].emailVerificationExpires : u \in DOMAIN store}
    \cup {store[u].passwordResetExpires : u \in DOMAIN store}

WaitUntil(t) ==
  /\ t > now
  /\ ops < MaxOps
  /\ ops' = ops + 1
  /\ now' = t
  /\ UNCHANGED <<store, pc, loc, known, consumed, active, clearedSince, tainted, mail, rand>>

Wait == \E e \in Expiries : WaitUntil(e - 1) \/ WaitUntil(e)

NextExpiry ==
  \/ ResendVerificationBy("p1") \/ VerifyEmailBy("p1")
  \/ RequestPasswordResetBy("p1") \/ ResetPasswordBy("p1")
  \/ Wait

SpecExpiry == Init /\ [][NextExpiry]_vars

(* Every operation of the service while the clock stands still: the account *)
(* requests of one client (any email, any user) next to the session         *)
(* requests another client makes as user u1                                 *)

GetProfileBy(p) == \E userId \in DOMAIN store \cup {"u0"} : GetProfile(p, userId)

AccountBy(p) ==
  \/ RegisterBy(p) \/ ResendVerificationBy(p) \/ VerifyEmailBy(p)
  \/ RequestPasswordResetBy(p) \/ ResetPasswordBy(p) \/ GetProfileBy(p)

SessionBy(p) ==
  \/ LoginFind(p, "a@x.com", "pw1") \/ LoginGenerate(p) \/ LoginAdd(p)
  \/ RefreshBy(p)
  \/ \E t \in Presentable : LogoutFind(p, "u1", t)
  \/ LogoutSave(p)
  \/ LogoutAllFind(p, "u1") \/ LogoutAllSave(p)

NextAll == AccountBy("p1") \/ SessionBy("p2")

SpecAll == Init /\ [][NextAll]_vars

(* The protected routes under a client that logs in and then sends the     *)
(* tokens it has, none, or garbage                                          *)

Bearers == known \cup {NoToken, GarbageToken}

ProtectedBy(p) ==
  \E route \in ProtectedRoutes, bearer \in Bearers, refreshToken \in known \cup {NoToken} :
    Protected(p, route, bearer, refreshToken)

NextProtected == LoginBy("p1") \/ ProtectedBy("p1") \/ Tick

SpecProtected == Init /\ [][NextProtected]_vars

(* The token service under a caller who holds one pair at a time *)

Held(p) == {loc[p].newTokens.accessToken, loc[p].newTokens.refreshToken, GarbageToken, NoExpToken}

TokenCalls(p) ==
  \/ \E userId \in UserIds, email \in LoginEmails : TokenIssue(p, userId, email)
  \/ \E token \in Held(p) : TokenVerifyAccess(p, token)
  \/ \E token \in Held(p) : TokenVerifyRefresh(p, token)
  \/ \E token \in Held(p) : TokenIsExpired(p, token)

NextToken == TokenCalls("p1") \/ Tick

SpecToken == Init /\ [][NextToken]_vars

TypeOK == /\ now \in 0..MaxOps
          /\ ops \in 0..MaxOps
          /\ \A u \in Users : Len(store[u].refreshTokens) <= MaxOps

----------------------------------------------------------------------------
(* Properties *)

Finished(p, op) == pc[p] = "idle" /\ loc[p].op = op /\ loc[p].res.status # "none"

Succeeded(p, op) == Finished(p, op) /\ loc[p].res.status = "ok"

Failed(p, op) == Finished(p, op) /\ loc[p].res.status = "error"

Count(tokens, t) == Cardinality({i \in DOMAIN tokens : tokens[i] = t})

(* C1: rotation is one-shot.  A Refresh that starts after a Refresh         *)
(* presenting the same string has succeeded fails, with "Invalid refresh    *)
(* token" (or, once the token has expired, with "Refresh token expired").   *)
C1_RotationOneShot ==
  \A p \in Procs :
    (Finished(p, "refresh") /\ loc[p].wasConsumed) =>
      /\ loc[p].res.status = "error"
      /\ loc[p].res.message \in {"Invalid refresh token", "Refresh token expired"}

(* C2: of two overlapping Refresh calls that present the same refresh       *)
(* token, active when each of them started, exactly one returns a token     *)
(* pair and the other fails (with "Invalid refresh token"; the formula      *)
(* lets the loser fail with any error).                                     *)
C2_ConcurrentRefreshOneWinner ==
  \A p, q \in Procs :
    (/\ p # q
     /\ Finished(p, "refresh") /\ Finished(q, "refresh")
     /\ loc[p].racedWith = q /\ loc[q].racedWith = p
     /\ loc[p].token = loc[q].token
     /\ loc[p].activeAtStart /\ loc[q].activeAtStart)
    => \E w \in {p, q} :
         /\ loc[w].res.status = "ok"
         /\ \A l \in {p, q} \ {w} : loc[l].res.status = "error"

(* C3: rotation is one transition of refreshTokens.  Once a Refresh has     *)
(* saved the removal of the old token, the new one is in the array too: no  *)
(* state has the old token removed and the new one not yet added.           *)
C3_RotationAtomic ==
  \A p \in Procs :
    pc[p] = "rf_add" =>
      \/ hasRefreshToken(store[loc[p].uid].refreshTokens, loc[p].token)
      \/ hasRefreshToken(store[loc[p].uid].refreshTokens, loc[p].newTokens.refreshToken)

(* C4: in every state the refreshTokens of a user are exactly the tokens    *)
(* returned by a successful Login or Refresh and not since rotated out by a *)
(* successful Refresh, removed by Logout or cleared by LogoutAll or          *)
(* ResetPassword.                                                           *)
C4_ActiveSetExact ==
  \A u \in Users : TokenSet(store[u].refreshTokens) = active[u]

(* C5: a ResetPassword that succeeds while no other request is in flight    *)
(* leaves refreshTokens empty on return, however many tokens were active.   *)
C5_ResetEmptiesTokens ==
  \A p \in Procs :
    (Succeeded(p, "reset") /\ loc[p].solo) => loc[p].left = <<>>

C5_Witness ==
  \E p \in Procs : Succeeded(p, "reset") /\ loc[p].solo /\ Len(loc[p].seen) >= 2

(* C6: once a ResetPassword has returned, no refresh token of a session     *)
(* that authenticated with the old password (issued by such a Login or      *)
(* derived from it by Refresh) is accepted by Refresh.                      *)
C6_ResetInvalidatesOldSessions ==
  \A p \in Procs :
    (Finished(p, "refresh") /\ loc[p].wasTainted) => loc[p].res.status = "error"

(* C7: a Login that fails, for an unknown email or for a wrong password,    *)
(* throws InvalidCredentialsException("Invalid email or password"), hands   *)
(* out no token and changes no record.                                      *)
C7_LoginFailuresIndistinguishable ==
  [][\A p \in Procs :
       (loc'[p] # loc[p] /\ Failed(p, "login")')
       => /\ loc'[p].res.name = "InvalidCredentialsException"
          /\ loc'[p].res.message = "Invalid email or password"
          /\ loc'[p].res.tokens = NoTokens
          /\ store' = store
          /\ known' = known]_vars

C7_Witness ==
  \E p, q \in Procs :
    /\ Failed(p, "login") /\ loc[p].email = "nobody@x.com"
    /\ Failed(q, "login") /\ loc[q].email = "a@x.com"
    /\ loc[p].res = loc[q].res

(* C8: a successful Login of user u returns the summary of u and an         *)
(* access/refresh pair signed for u; on return the refresh token is in u's  *)
(* refreshTokens, and so is every token that was there before.              *)
C8_LoginIssuesPair ==
  \A p \in Procs :
    Succeeded(p, "login") =>
      LET u == loc[p].uid
          t == loc[p].res.tokens IN
      /\ store[u].email = ToLower(loc[p].email)
      /\ loc[p].res.user = [id |-> u, email |-> store[u].email,
                            firstName |-> store[u].firstName, lastName |-> store[u].lastName,
                            isEmailVerified |-> store[u].isEmailVerified,
                            createdAt |-> store[u].createdAt]
      /\ t.accessToken.type = "access" /\ t.accessToken.userId = u
      /\ t.accessToken.sig = JwtAccessSecret
      /\ t.refreshToken.type = "refresh" /\ t.refreshToken.userId = u
      /\ t.refreshToken.sig = JwtRefreshSecret
      /\ t.refreshToken.iat = t.accessToken.iat
      /\ hasRefreshToken(loc[p].left, t.refreshToken)
      /\ \A old \in TokenSet(loc[p].seen) : Count(loc[p].left, old) >= Count(loc[p].seen, old)

C8_Witness ==
  \E p \in Procs :
    /\ Succeeded(p, "login")
    /\ loc[p].seen # <<>>
    /\ ~hasRefreshToken(loc[p].seen, loc[p].res.tokens.refreshToken)

(* C9: once LogoutAll has returned and until a token is issued again, the   *)
(* user's refreshTokens is empty, and a Refresh presenting an unexpired     *)
(* token issued earlier fails with "Invalid refresh token".                 *)
C9_LogoutAllRevokesAll ==
  /\ \A u \in Users : clearedSince[u] => store[u].refreshTokens = <<>>
  /\ \A p \in Procs :
       (Finished(p, "refresh") /\ loc[p].afterClear) =>
         (loc[p].res.status = "error" /\ loc[p].res.message = "Invalid refresh token")

C9_Witness ==
  \E p, q \in Procs :
    /\ Failed(p, "refresh") /\ loc[p].afterClear /\ loc[p].token \in known
    /\ Succeeded(q, "logoutAll") /\ Len(loc[q].seen) >= 2 /\ loc[q].uid = loc[p].uid

C11_SequentialRotation ==
  \A p \in Procs :
    (Finished(p, "refresh") /\ loc[p].depth >= 1 /\ loc[p].solo) =>
      /\ loc[p].res.status = "ok"
      /\ loc[p].depth >= 2 =>
           /\ hasRefreshToken(loc[p].left, loc[p].res.tokens.refreshToken)
           /\ ~hasRefreshToken(loc[p].left, loc[p].origin)

(* C12: a VerifyEmail whose token matches no record fails with "Invalid or  *)
(* expired verification token"; a VerifyEmail that found the record by its  *)
(* unexpired token leaves isEmailVerified true and both verification fields *)
(* cleared, and a later VerifyEmail with a token that a VerifyEmail has     *)
(* succeeded with fails the same way.                                       *)
C12_VerifyEmailOnce ==
  [][\A p \in Procs :
       /\ (pc[p] = "ve_update" /\ pc'[p] = "idle") =>
            /\ loc'[p].res.status = "ok"
            /\ loc'[p].res.user.isEmailVerified
            /\ store'[loc[p].uid].isEmailVerified
            /\ store'[loc[p].uid].emailVerificationToken = NoOtt
            /\ store'[loc[p].uid].emailVerificationExpires = NoDate
       /\ (/\ loc'[p] # loc[p]
           /\ Finished(p, "verify")'
           /\ (loc'[p].ott = NoOtt \/ loc'[p].wasConsumed)) =>
            /\ loc'[p].res.status = "error"
            /\ loc'[p].res.message = "Invalid or expired verification token"]_vars

(* C13: the save of a Register creates a record with isEmailVerified false  *)
(* and no refresh tokens that carries a verification token expiring 24      *)
(* hours later, and that token is the one handed to the verification        *)
(* email.                                                                   *)
C13_RegisterIssuesVerificationToken ==
  [][\A p \in Procs :
       (pc[p] = "rg_create" /\ pc'[p] = "rg_send") =>
         LET doc == store'[loc'[p].uid] IN
         /\ loc'[p].uid \notin DOMAIN store
         /\ doc.isEmailVerified = FALSE
         /\ doc.refreshTokens = <<>>
         /\ doc.emailVerificationToken # NoOtt
         /\ doc.emailVerificationExpires = now + 86400
         /\ loc'[p].ott = doc.emailVerificationToken]_vars

C15_UniqueEmail ==
  \A u, v \in DOMAIN store :
    u # v => ToLower(store[u].email) # ToLower(store[v].email)

C15_Witness ==
  \E p, q \in Procs :
    /\ Succeeded(p, "register")
    /\ Failed(q, "register") /\ loc[q].res.name = "MongoServerError"
    /\ ToLower(loc[p].email) = ToLower(loc[q].email)

(* C16: the password field of every record holds a hash, never the          *)
(* password as it was typed.                                                *)
C16_PasswordStoredHashed ==
  \A u \in DOMAIN store : store[u].password.hashed

(* C17: VerifyEmail and ResetPassword find a record only by a token whose   *)
(* expiry is strictly later than the current instant, and fail when the     *)
(* clock stands at the expiry; the expiry stored with a verification token  *)
(* is 24 hours, with a reset token 1 hour, after the instant of issue.      *)
C17_StrictExpiry ==
  [][\A p \in Procs :
       /\ (pc[p] = "idle" /\ pc'[p] = "ve_update") =>
            \E u \in DOMAIN store : /\ store[u].emailVerificationToken = loc'[p].ott
                                    /\ now < store[u].emailVerificationExpires
       /\ (pc[p] = "idle" /\ pc'[p] = "rp_update") =>
            \E u \in DOMAIN store : /\ store[u].passwordResetToken = loc'[p].ott
                                    /\ now < store[u].passwordResetExpires
       /\ (loc'[p] # loc[p] /\ loc'[p].op \in {"verify", "reset"} /\ loc'[p].boundary) =>
            (pc'[p] = "idle" /\ loc'[p].res.status = "error")
       /\ (pc[p] = "idle" /\ pc'[p] = "rs_update") => loc'[p].expires = now + 86400
       /\ (pc[p] = "idle" /\ pc'[p] = "rq_update") => loc'[p].expires = now + 3600
       /\ (pc[p] = "rs_update" /\ pc'[p] = "rs_send") =>
            /\ store'[loc[p].uid].emailVerificationToken = loc[p].ott
            /\ store'[loc[p].uid].emailVerificationExpires = loc[p].expires
       /\ (pc[p] = "rq_update" /\ pc'[p] = "rq_send") =>
            /\ store'[loc[p].uid].passwordResetToken = loc[p].ott
            /\ store'[loc[p].uid].passwordResetExpires = loc[p].expires]_vars

C17_Witness ==
  \E p \in Procs :
    /\ Failed(p, "verify")
    /\ loc[p].ott \in mail
    /\ loc[p].boundary
    /\ \E u \in DOMAIN store : store[u].emailVerificationToken = loc[p].ott
                                /\ store[u].emailVerificationExpires = now

(* C18: an access token presented to verifyRefreshToken and a refresh token *)
(* presented to verifyAccessToken are both rejected, and the error is       *)
(* "Invalid token type" (not the invalid-token or the expired-token one).   *)
C18_KindMismatch ==
  \A p \in Procs :
    /\ (loc[p].op = "verifyRefresh" /\ loc[p].token = loc[p].newTokens.accessToken) =>
         (loc[p].res.status = "error" /\ loc[p].res.message = "Invalid token type")
    /\ (loc[p].op = "verifyAccess" /\ loc[p].token = loc[p].newTokens.refreshToken) =>
         (loc[p].res.status = "error" /\ loc[p].res.message = "Invalid token type")

C20_IsExpiredBoundary ==
  [][\A p \in Procs :
       (pc[p] = "tk_held" /\ loc'[p] # loc[p] /\ loc'[p].op = "isExpired") =>
         /\ loc'[p].res.status = "ok"
         /\ loc'[p].token \in {GarbageToken, NoExpToken} => loc'[p].res.flag
         /\ (loc'[p].token \in known /\ loc'[p].token.exp <= now) => loc'[p].res.flag
         /\ (loc'[p].token \in known /\ JwtVerify(loc'[p].token, loc'[p].token.sig, now) = "TokenExpiredError")
              => loc'[p].res.flag]_vars

(* C21: the expiresIn that generateTokens returns with a pair is the        *)
(* configured access-token lifetime in seconds, the difference between the  *)
(* exp and the iat of the access token signed with that lifetime.           *)
C21_ExpiresInSeconds ==
  \A p \in Procs :
    loc[p].op = "issue" =>
      loc[p].newTokens.expiresIn
        = loc[p].newTokens.accessToken.exp - loc[p].newTokens.accessToken.iat

(* C22: when the verification email cannot be delivered during Register,    *)
(* Register still returns the created user without error, and the created   *)
(* record stays in the store as it was created, its verification token      *)
(* included.                                                                *)
C22_RegisterSurvivesDeliveryFailure ==
  [][\A p \in Procs :
       (pc[p] = "rg_send" /\ pc'[p] = "idle" /\ ~loc'[p].sent) =>
         /\ loc'[p].res.status = "ok"
         /\ loc'[p].res.user = loc[p].user
         /\ store' = store
         /\ loc[p].uid \in DOMAIN store'
         /\ store'[loc[p].uid].emailVerificationToken # NoOtt]_vars

(* C23: when the email service fails during ResendVerification or           *)
(* RequestPasswordReset the call fails with the error of the failed         *)
(* delivery; a request that ends without error although its email was not   *)
(* delivered is a Register.                                                 *)
C23_DeliveryFailureSurfaces ==
  [][\A p \in Procs :
       (pc[p] \in {"rg_send", "rs_send", "rq_send"} /\ pc'[p] = "idle" /\ ~loc'[p].sent) =>
         /\ pc[p] = "rs_send" =>
              /\ loc'[p].res.status = "error"
              /\ loc'[p].res.message = "Failed to send verification email"
         /\ pc[p] = "rq_send" =>
              /\ loc'[p].res.status = "error"
              /\ loc'[p].res.message = "Failed to send password reset email"
         /\ loc'[p].res.status = "ok" => pc[p] = "rg_send"
         /\ pc[p] = "rg_send" => loc'[p].res.status = "ok"]_vars

C23_Witness ==
  \E p \in Procs :
    /\ Failed(p, "request")
    /\ ~loc[p].sent
    /\ loc[p].res.message = "Failed to send password reset email"
    /\ store[loc[p].uid].passwordResetToken = loc[p].ott
    /\ loc[p].ott \notin mail

(* C24: RequestPasswordReset for an email that no record has returns        *)
(* success, changes no record and sends no email, and what the caller gets  *)
(* back is what the caller of a request for an existing email gets once the *)
(* email is delivered.                                                      *)
C24_SilentUnknownEmail ==
  [][\A p \in Procs :
       /\ (pc[p] = "idle" /\ loc'[p] # loc[p] /\ loc'[p].op = "request"
              /\ findByEmail(loc'[p].email) = "") =>
            /\ pc'[p] = "idle"
            /\ loc'[p].res = Return(NoUser, NoTokens)
            /\ store' = store
            /\ mail' = mail
       /\ (pc[p] = "rq_send" /\ pc'[p] = "idle" /\ loc'[p].sent) =>
            loc'[p].res = Return(NoUser, NoTokens)]_vars

C24_Witness ==
  \E p \in Procs :
    /\ Succeeded(p, "request")
    /\ findByEmail(loc[p].email) = ""
    /\ ~loc[p].sent
    /\ loc[p].ott = NoOtt

(* C25: ResendVerification stores a token no one has seen before in place   *)
(* of the user's verification token, with an expiry 24 hours after the      *)
(* call; from then on VerifyEmail goes through only with the token the      *)
(* record holds now, and a verification token delivered earlier, which no   *)
(* record holds any more, fails with "Invalid or expired verification       *)
(* token".                                                                  *)
C25_ResendReplacesToken ==
  [][\A p \in Procs :
       /\ (pc[p] = "idle" /\ pc'[p] = "rs_update") =>
            /\ loc'[p].ott # NoOtt
            /\ loc'[p].ott \notin mail
            /\ \A u \in DOMAIN store : store[u].emailVerificationToken # loc'[p].ott
            /\ loc'[p].expires = now + 24 * 60 * 60
       /\ (pc[p] = "rs_update" /\ pc'[p] = "rs_send") =>
            /\ store'[loc[p].uid].emailVerificationToken = loc[p].ott
            /\ store'[loc[p].uid].emailVerificationToken # store[loc[p].uid].emailVerificationToken
            /\ store'[loc[p].uid].emailVerificationExpires = loc[p].expires
       /\ (pc[p] = "idle" /\ pc'[p] = "ve_update") =>
            /\ store[loc'[p].uid].emailVerificationToken = loc'[p].ott
            /\ now < store[loc'[p].uid].emailVerificationExpires
       /\ (pc[p] = "idle" /\ loc'[p] # loc[p] /\ loc'[p].op = "verify"
              /\ \A u \in DOMAIN store : store[u].emailVerificationToken # loc'[p].ott) =>
            /\ pc'[p] = "idle"
            /\ loc'[p].res.status = "error"
            /\ loc'[p].res.message = "Invalid or expired verification token"]_vars

C25_Witness ==
  \E p \in Procs :
    /\ Failed(p, "verify")
    /\ loc[p].ott \in mail /\ loc[p].ott # NoOtt
    /\ \A u \in DOMAIN store : store[u].passwordResetToken = NoOtt
    /\ \E u \in DOMAIN store :
         /\ store[u].emailVerificationToken \in mail
         /\ store[u].emailVerificationToken > loc[p].ott
         /\ now < store[u].emailVerificationExpires

(* C26: a record whose isEmailVerified is true stays in the store with      *)
(* isEmailVerified true through every step of every operation (Register,    *)
(* VerifyEmail, ResendVerification, RequestPasswordReset, ResetPassword,    *)
(* Login, Refresh, Logout, LogoutAll), however the steps of two requests    *)
(* interleave.                                                              *)
C26_VerifiedStaysVerified ==
  [][\A u \in DOMAIN store :
       store[u].isEmailVerified =>
         /\ u \in DOMAIN store'
         /\ store'[u].isEmailVerified]_vars

C26_Witness ==
  \E p \in Procs :
    /\ Succeeded(p, "reset")
    /\ store[loc[p].uid].isEmailVerified
    /\ loc[p].res.user.isEmailVerified

(* C27: a Refresh that presents a refresh token whose expiry has passed     *)
(* fails with "Refresh token expired", whether or not the token is still in *)
(* the user's refreshTokens array; it hands out no token and leaves every   *)
(* record as it was.                                                        *)
C27_ExpiredRefreshRejected ==
  [][\A p \in Procs :
       (/\ pc[p] = "idle" /\ loc'[p] # loc[p] /\ loc'[p].op = "refresh"
        /\ loc'[p].token.sig = JwtRefreshSecret
        /\ loc'[p].token.exp <= now) =>
         /\ pc'[p] = "idle"
         /\ loc'[p].res.status = "error"
         /\ loc'[p].res.message = "Refresh token expired"
         /\ loc'[p].res.tokens = NoTokens
         /\ known' = known
         /\ store' = store]_vars

C27_Witness ==
  \E p \in Procs :
    /\ Failed(p, "refresh")
    /\ loc[p].res.message = "Refresh token expired"
    /\ loc[p].token.exp <= now
    /\ \E u \in DOMAIN store : hasRefreshToken(store[u].refreshTokens, loc[p].token)

(* C28: a password-reset token works once.  The update of a ResetPassword   *)
(* leaves both reset fields of the record empty, and a ResetPassword that   *)
(* presents a token with which a ResetPassword has already succeeded fails  *)
(* with "Invalid or expired reset token".                                   *)
C28_ResetTokenSingleUse ==
  [][\A p \in Procs :
       /\ (pc[p] = "rp_update" /\ pc'[p] = "rp_clear_find") =>
            /\ store'[loc[p].uid].passwordResetToken = NoOtt
            /\ store'[loc[p].uid].passwordResetExpires = NoDate
       /\ (pc[p] = "idle" /\ loc'[p] # loc[p] /\ loc'[p].op = "reset" /\ loc'[p].wasConsumed) =>
            /\ pc'[p] = "idle"
            /\ loc'[p].res.status = "error"
            /\ loc'[p].res.message = "Invalid or expired reset token"]_vars

(* C29: a request to a protected route (logout, logout-all, profile) whose  *)
(* bearer token is missing, malformed, expired, of the refresh kind or      *)
(* names no existing user is answered with an authentication error (401)    *)
(* and nothing is executed: the operation runs only for a token that        *)
(* passes verifyAccessToken and whose subject exists.                       *)
C29_ProtectedNeedsValidToken ==
  [][\A p \in Procs :
       (pc[p] = "idle" /\ loc'[p] # loc[p] /\ loc'[p].op \in ProtectedRoutes) =>
         LET t == loc'[p].token
             valid == verifyAccessToken(t, now) = "ok" /\ findById(t.userId) # "" IN
         /\ ~valid => /\ loc'[p].res.status = "error"
                       /\ loc'[p].res.name = "401"
                       /\ store' = store
         /\ loc'[p].res.name \notin {"400", "401"} => valid]_vars

(* C30: the user that Register, Login, VerifyEmail, ResetPassword and       *)
(* GetProfile return has exactly the fields id, email, firstName, lastName, *)
(* isEmailVerified and createdAt (no password hash, no refresh tokens, no   *)
(* one-time token) and is the record of the request; GetProfile of an id    *)
(* that no record has fails with UserNotFoundException "User not found".    *)
C30_PublicProjection ==
  \A p \in Procs :
    /\ (\E op \in {"register", "login", "verify", "reset", "profile"} : Succeeded(p, op)) =>
         /\ DOMAIN loc[p].res.user
              = {"id", "email", "firstName", "lastName", "isEmailVerified", "createdAt"}
         /\ loc[p].res.user.id = loc[p].uid
         /\ loc[p].res.user.email = store[loc[p].uid].email
         /\ loc[p].res.user.firstName = store[loc[p].uid].firstName
         /\ loc[p].res.user.lastName = store[loc[p].uid].lastName
         /\ loc[p].res.user.createdAt = store[loc[p].uid].createdAt
    /\ (Finished(p, "profile") /\ loc[p].uid \notin DOMAIN store) =>
         /\ loc[p].res.status = "error"
         /\ loc[p].res.name = "UserNotFoundException"
         /\ loc[p].res.message = "User not found"
    /\ (Finished(p, "profile") /\ loc[p].uid \in DOMAIN store) => loc[p].res.status = "ok"

C30_Witness ==
  \E p \in Procs :
    /\ Succeeded(p, "profile")
    /\ loc[p].uid = "u3"
    /\ loc[p].res.user.email = "c@x.com"
    /\ store["u3"].password.hashed

(* C31: in every state and for every record, the verification token and its *)
(* expiry are both set or both empty, the reset token and its expiry are    *)
(* both set or both empty, and a record that holds a verification token is  *)
(* not verified, also when a ResendVerification and a VerifyEmail of the    *)
(* same user interleave.                                                    *)
C31_TokenPairs ==
  \A u \in DOMAIN store :
    /\ (store[u].emailVerificationToken = NoOtt) <=> (store[u].emailVerificationExpires = NoDate)
    /\ (store[u].passwordResetToken = NoOtt) <=> (store[u].passwordResetExpires = NoDate)
    /\ store[u].emailVerificationToken # NoOtt => ~store[u].isEmailVerified

(* C32: a Refresh that fails, for whatever reason (a failure of the store   *)
(* between removeRefreshToken and addRefreshToken included), leaves the     *)
(* presented refresh token in the user's array if it was there when the     *)
(* call started, hands out no token and adds none.                          *)
C32_FailedRefreshKeepsSession ==
  [][\A p \in Procs :
       (/\ loc'[p] # loc[p] /\ loc'[p].op = "refresh"
        /\ pc'[p] = "idle" /\ loc'[p].res.status = "error") =>
         /\ known' = known
         /\ store' = store
         /\ \A u \in DOMAIN store :
              (loc'[p].solo /\ loc'[p].uid = u /\ loc'[p].activeAtStart) =>
                hasRefreshToken(store'[u].refreshTokens, loc'[p].token)]_vars

(* C33: the refresh token that a successful Login or Refresh returns is     *)
(* new: it differs from every refresh token handed out before, and from the *)
(* token presented to the Refresh, also when both were signed in the same   *)
(* second.                                                                  *)
C33_FreshRefreshToken ==
  [][\A p \in Procs :
       (/\ loc'[p] # loc[p] /\ loc'[p].op \in {"login", "refresh"}
        /\ pc'[p] = "idle" /\ loc'[p].res.status = "ok") =>
         /\ loc'[p].res.tokens.refreshToken \notin known
         /\ loc'[p].op = "refresh" => loc'[p].res.tokens.refreshToken # loc'[p].token]_vars

(* C34: a Refresh whose token passes verifyRefreshToken fails with          *)
(* UserNotFoundException "User not found" when no record has the token's    *)
(* userId, and with the error "Invalid refresh token" when the record       *)
(* exists and the token is not in its refreshTokens array; either way no    *)
(* token is handed out and no record changes.                               *)
C34_RefreshRejections ==
  [][\A p \in Procs :
       /\ (/\ pc[p] = "idle" /\ loc'[p] # loc[p] /\ loc'[p].op = "refresh"
            /\ verifyRefreshToken(loc'[p].token, now) = "ok"
            /\ loc'[p].token.userId \notin DOMAIN store) =>
              /\ pc'[p] = "idle"
              /\ loc'[p].res = UserNotFoundException("User not found")
              /\ known' = known
              /\ store' = store
       /\ (/\ pc[p] = "rf_has" /\ pc'[p] # "rf_has"
            /\ \A i \in DOMAIN store[loc[p].uid].refreshTokens :
                 store[loc[p].uid].refreshTokens[i] # loc[p].token) =>
              /\ pc'[p] = "idle"
              /\ loc'[p].res = PlainError("Invalid refresh token")
              /\ known' = known
              /\ store' = store]_vars

C34_Witness ==
  \E p \in Procs :
    /\ Failed(p, "refresh")
    /\ loc[p].token = OrphanToken
    /\ now < OrphanToken.exp
    /\ loc[p].res.name = "UserNotFoundException"

(* C35: the failures DuplicateEmail (Register), UserNotFound (Refresh,      *)
(* ResendVerification, GetProfile), InvalidOrExpiredToken (VerifyEmail,     *)
(* ResetPassword), InvalidRefreshToken (Refresh) and AlreadyVerified        *)
(* (ResendVerification) reach the caller as pairwise distinct kinds of      *)
(* error: two requests that failed for different ones of these reasons did  *)
(* not throw the same kind of exception.                                    *)
C35_DistinctErrorKinds ==
  LET Reason(l) ==
        IF l.op = "register" /\ l.res.message = "User with this email already exists"
        THEN "DuplicateEmail"
        ELSE IF l.op \in {"refresh", "resend", "profile"} /\ l.res.message = "User not found"
        THEN "UserNotFound"
        ELSE IF l.op \in {"verify", "reset"} THEN "InvalidOrExpiredToken"
        ELSE IF l.op = "refresh" /\ l.res.message = "Invalid refresh token"
        THEN "InvalidRefreshToken"
        ELSE IF l.op = "resend" /\ l.res.message = "Email is already verified"
        THEN "AlreadyVerified"
        ELSE "other" IN
  \A p, q \in Procs :
    (/\ pc[p] = "idle" /\ loc[p].res.status = "error" /\ Reason(loc[p]) # "other"
     /\ pc[q] = "idle" /\ loc[q].res.status = "error" /\ Reason(loc[q]) # "other"
     /\ Reason(loc[p]) # Reason(loc[q])) =>
       loc[p].res.name # loc[q].res.name

(* C36: once a ResetPassword for user u has set the password and no reset   *)
(* of u is under way, Login with u's email and the password of that reset   *)
(* gets past the password check, and Login with any other password (u's     *)
(* previous one among them) fails with InvalidCredentialsException.  The    *)
(* record's password was written by a reset exactly when it does not carry  *)
(* the mark of the save hook.                                               *)
C36_LoginAfterReset ==
  [][\A p \in Procs :
       (/\ pc[p] = "idle" /\ loc'[p] # loc[p] /\ loc'[p].op = "login"
        /\ findByEmail(loc'[p].email) # ""
        /\ ~store[findByEmail(loc'[p].email)].password.hashed
        /\ \A q \in Procs : pc[q] \notin {"rp_update", "rp_clear_find", "rp_clear_save"}) =>
         LET u == findByEmail(loc'[p].email) IN
         IF loc'[p].tried = store[u].password.text
         THEN pc'[p] = "login_gen"
         ELSE /\ pc'[p] = "idle"
              /\ loc'[p].res.status = "error"
              /\ loc'[p].res.name = "InvalidCredentialsException"]_vars

(* C37: when a LogoutAll of user u that ran alone returns, u's              *)
(* refreshTokens array is empty; and a Refresh of u that was under way when *)
(* a LogoutAll of u returned (it may already have passed its                *)
(* hasRefreshToken check) puts no token into the empty array: without a new *)
(* Login no refresh token of u becomes active.                              *)
C37_LogoutAllIsFinal ==
  [][\A p \in Procs :
       /\ (/\ pc[p] = "la_save" /\ pc'[p] = "idle"
            /\ loc'[p].res.status = "ok" /\ loc'[p].solo) =>
              store'[loc[p].uid].refreshTokens = <<>>
       /\ (/\ pc[p] \in RefreshInFlight /\ pc'[p] # pc[p] /\ loc[p].loggedOut
            /\ store[loc[p].uid].refreshTokens = <<>>) =>
              /\ store'[loc[p].uid].refreshTokens = <<>>
              /\ loc'[p].res.status # "ok"]_vars

(* C38: no update of refreshTokens is lost between overlapping requests of  *)
(* one user.  When a Login that succeeded and an overlapping Login, Refresh *)
(* or Logout of the same user have both returned, the refresh token each    *)
(* successful Login or Refresh returned is in the array and the token a     *)
(* successful Logout removed is not.                                        *)
C38_NoLostUpdate ==
  \A p, q \in Procs :
    (/\ p # q
     /\ Succeeded(p, "login") /\ ~loc[p].solo
     /\ pc[q] = "idle" /\ ~loc[q].solo /\ loc[q].res.status # "none"
     /\ loc[q].op \in {"login", "refresh", "logout"}
     /\ loc[q].uid = loc[p].uid) =>
      LET tokens == store[loc[p].uid].refreshTokens IN
      /\ hasRefreshToken(tokens, loc[p].res.tokens.refreshToken)
      /\ (loc[q].op \in {"login", "refresh"} /\ loc[q].res.status = "ok") =>
           hasRefreshToken(tokens, loc[q].res.tokens.refreshToken)
      /\ (loc[q].op = "logout" /\ loc[q].res.status = "ok") =>
           ~hasRefreshToken(tokens, loc[q].token)

(* C39: every refresh token in a user's refreshTokens array carries that    *)
(* user's id as its subject, and a step changes the array of user u only    *)
(* when it is a step of a request acting for u: a token that a step adds to *)
(* u's array is the one a Login or Refresh of u issued, and the arrays of   *)
(* the other users stay as they were.                                       *)
C39_TokensBelongToOwner ==
  /\ [](\A u \in Users : \A i \in DOMAIN store[u].refreshTokens :
          store[u].refreshTokens[i].userId = u)
  /\ [][\A u \in Users :
          store'[u].refreshTokens # store[u].refreshTokens =>
            \E p \in Procs :
              /\ pc'[p] # pc[p]
              /\ loc[p].uid = u
              /\ \A v \in Users \ {u} : store'[v].refreshTokens = store[v].refreshTokens
              /\ \A t \in TokenSet(store'[u].refreshTokens) \ TokenSet(store[u].refreshTokens) :
                   /\ pc[p] \in {"login_add", "rf_add"}
                   /\ t = loc[p].newTokens.refreshToken
                   /\ t.userId = u]_vars

C39_Witness ==
  /\ store["u1"].refreshTokens # <<>>
  /\ store["u2"].refreshTokens # <<>>
  /\ \E p \in Procs : Succeeded(p, "refresh") /\ loc[p].uid = "u2"

(* C40: an account is active only once its email address is verified.  A    *)
(* Login that returns a token pair is a Login of a user whose               *)
(* isEmailVerified is true, and a request to a protected route that         *)
(* succeeds carries the access token of such a user.                        *)
C40_VerifiedBeforeUse ==
  \A p \in Procs :
    /\ Succeeded(p, "login") => store[loc[p].uid].isEmailVerified
    /\ (loc[p].op \in ProtectedRoutes /\ pc[p] = "idle" /\ loc[p].res.status = "ok") =>
         /\ loc[p].token.userId \in DOMAIN store
         /\ store[loc[p].token.userId].isEmailVerified

====
